---- MODULE Spec2Model ----
(***************************************************************************)
(* Model of the kyberion-vscode extension core:                            *)
(*   - ForgeClient (src/ForgeClient.ts): WebSocket transport, outbound     *)
(*     queue, request correlation (sendAndWait / handleMessage), heartbeat *)
(*     and reconnect.                                                      *)
(*   - ChatViewProvider (src/providers/ChatViewProvider.ts): the plan      *)
(*     execution state machine (start / pause / resume / executeNextStep). *)
(* JavaScript is single threaded: every action below is one macrotask (a   *)
(* UI command, a socket event, a timer) run to completion together with    *)
(* the promise continuations it makes runnable.                            *)
(***************************************************************************)
EXTENDS Integers, Sequences, FiniteSets, Bags, TLC

\* ------------------------------------------------------------------------
\* Bounds of the model
\* ------------------------------------------------------------------------
MaxSteps == 3
MaxTasks == 2
MaxEvents == 4
MaxPlans == 2
MaxCreated == 2
MaxSockets == 2
MaxCalls == 2
MaxQueue == 2
NumHandlers == 2

VARIABLES
    \* ---- ChatViewProvider ----
    plans,          \* every ForgePlan object created so far (index = identity)
    currentPlan,    \* this.currentPlan: index into plans, 0 = null
    isExecuting,    \* this.isExecuting
    uiConnected,    \* this.isConnected of the provider
    tasks,          \* bag of suspended executeNextStep chains (at an await)
    creating,       \* handleCreatePlan invocations awaiting createPlan()
    events,         \* history: the first eventCap step events posted to the webview
    eventCap,       \* history: capacity of the event recorder (0 = not recording)
    escaped,        \* an exception left executeNextStep (rejected command)
    stepError,      \* the error with which the step calls of this run fail
    resumed         \* history: FALSE from a pause command until the next resume

VARIABLES
    \* ---- ForgeClient ----
    socks,              \* every WebSocket created so far: its readyState
    ws,                 \* this.ws: index into socks, 0 = null
    connected,          \* this.connected
    reconnectAttempts,  \* this.reconnectAttempts
    reconnectTimers,    \* pending setTimeout(() => this.connect()) of attemptReconnect
    heartbeatInterval,  \* this.heartbeatInterval is armed
    heartbeatTimers,    \* setInterval timers of startHeartbeat not yet cleared
    messageQueue,       \* this.messageQueue
    pendingRequests,    \* keys of this.pendingRequests in insertion order
    calls,              \* every sendAndWait so far: promise, timer, connect waiter
    settled,            \* promise settlements made by the last macrotask, in order
    hung                \* the event loop is stuck in flushMessageQueue

clientVars == <<socks, ws, connected, reconnectAttempts, reconnectTimers,
                heartbeatInterval, heartbeatTimers, messageQueue, pendingRequests,
                calls, settled, hung>>

planVars == <<plans, currentPlan, isExecuting, uiConnected, tasks, creating,
              events, eventCap, escaped, stepError, resumed>>

vars == <<planVars, clientVars>>

\* ------------------------------------------------------------------------
\* ChatViewProvider: data
\* ------------------------------------------------------------------------
StepStatus == {"pending", "in-progress", "completed", "failed"}
PlanStatus == {"draft", "running", "paused", "completed", "failed"}

ErrTimeout == "Timeout beim Warten auf Antwort"
ErrNoConn == "Keine Verbindung zur Forge"
ErrNoResponse == "Keine Antwort vom Server"
ErrTypeError == "TypeError"
RejectErrors == {ErrTimeout, ErrNoConn}
\* what the catch block of executeNextStep can receive from the step call:
\* a rejection of sendAndWait, or the error thrown for an empty response.
\* The plan machine never inspects the error, it only stores its text; one
\* run of the model uses one of them (stepError) for all its failures.
StepErrors == {ErrTimeout, ErrNoResponse}

NewStep == [status |-> "pending", error |-> "none"]

\* a plan as extractPlanFromResponse builds it: n pending steps, draft, cursor 0
DraftPlan(n) ==
    [steps |-> [i \in 1..n |-> NewStep], currentStepIndex |-> 0, status |-> "draft"]

Last(s) == s[Len(s)]
Front(s) == SubSeq(s, 1, Len(s) - 1)

\* a suspended executeNextStep: the chain of frames <<plan, stepIndex>> (the
\* innermost last) and the await it is suspended at
Task(frames, pc) == [frames |-> frames, pc |-> pc]
AddTask(ts, t) == ts (+) SetToBag({t})
RemoveTask(ts, t) == ts (-) SetToBag({t})

\* the provider's mutable state as one value, threaded through the handlers
Cur ==
    [plans |-> plans, currentPlan |-> currentPlan, isExecuting |-> isExecuting,
     tasks |-> tasks, events |-> events, eventCap |-> eventCap,
     escaped |-> escaped]

\* this.postMessage of a step event; the recorder keeps the first eventCap
postMessage(st, ev) ==
    IF Len(st.events) < st.eventCap
        THEN [st EXCEPT !.events = Append(@, ev)]
        ELSE st

\* step.status = s (step is the captured object: plan p, 0-based index i)
SetStepStatus(st, p, i, s) ==
    [st EXCEPT !.plans[p].steps[i + 1].status = s]

SetStepError(st, p, i, e) ==
    [st EXCEPT !.plans[p].steps[i + 1].error = e]

\* executeNextStep up to its first await (or its return); frames is the chain
\* of callers suspended in `await this.executeNextStep()`
executeNextStep(st, frames) ==
    IF st.currentPlan = 0 \/ ~st.isExecuting
        THEN st
        ELSE LET p == st.currentPlan
                 stepIndex == st.plans[p].currentStepIndex
             IN  IF stepIndex >= Len(st.plans[p].steps)
                     THEN postMessage(
                              [st EXCEPT !.plans[p].status = "completed",
                                         !.isExecuting = FALSE],
                              <<"executionCompleted", -1>>)
                     ELSE LET s1 == SetStepStatus(st, p, stepIndex, "in-progress")
                              s2 == postMessage(s1, <<"stepStarted", stepIndex>>)
                          IN  [s2 EXCEPT !.tasks = AddTask(@,
                                  Task(Append(frames, <<p, stepIndex>>), "call"))]

\* the catch block of executeNextStep, for the innermost frame and, when the
\* catch block itself throws (this.currentPlan is null), for its callers
RECURSIVE catchBlock(_, _, _)
catchBlock(st, frames, err) ==
    IF frames = <<>>
        THEN [st EXCEPT !.escaped = TRUE]
        ELSE LET p == Last(frames)[1]
                 i == Last(frames)[2]
                 s1 == SetStepError(SetStepStatus(st, p, i, "failed"), p, i, err)
             IN  IF s1.currentPlan = 0
                     THEN catchBlock(s1, Front(frames), ErrTypeError)
                     ELSE postMessage(
                              [s1 EXCEPT !.plans[s1.currentPlan].status = "failed",
                                         !.isExecuting = FALSE],
                              <<"stepFailed", i>>)

\* continuation of executeNextStep after executeStep() resolved with a response
afterResponse(st, t) ==
    LET p == Last(t.frames)[1]
        i == Last(t.frames)[2]
        s1 == postMessage(SetStepStatus(st, p, i, "completed"), <<"stepCompleted", i>>)
        s2 == [s1 EXCEPT !.tasks = RemoveTask(@, t)]
    IN  IF s2.currentPlan = 0
            THEN catchBlock(s2, t.frames, ErrTypeError)
            ELSE [s2 EXCEPT !.plans[s2.currentPlan].currentStepIndex = @ + 1,
                            !.tasks = AddTask(@, Task(t.frames, "delay"))]

\* mutant: the rejection is swallowed, the catch block does not run
afterFailure_NoCatch(st, t, err) ==
    [st EXCEPT !.tasks = RemoveTask(@, t)]

\* continuation after executeStep() rejected, or resolved with no response
afterFailure(st, t, err) ==
    catchBlock([st EXCEPT !.tasks = RemoveTask(@, t)], t.frames, err)

\* continuation after the 500 ms settling delay: the recursive call
afterDelay(st, t) ==
    executeNextStep([st EXCEPT !.tasks = RemoveTask(@, t)], t.frames)

startPlanExecution(st) ==
    IF st.currentPlan = 0 \/ st.isExecuting
        THEN st
        ELSE executeNextStep(
                 [st EXCEPT !.isExecuting = TRUE,
                            !.plans[st.currentPlan].status = "running"],
                 <<>>)

\* mutant: pause sets the status but leaves isExecuting set
pausePlanExecution_KeepsFlag(st) ==
    IF st.currentPlan = 0
        THEN st
        ELSE [st EXCEPT !.plans[st.currentPlan].status = "paused"]

pausePlanExecution(st) ==
    IF st.currentPlan = 0
        THEN [st EXCEPT !.isExecuting = FALSE]
        ELSE [st EXCEPT !.isExecuting = FALSE,
                        !.plans[st.currentPlan].status = "paused"]

resumePlanExecution(st) ==
    IF st.currentPlan = 0
        THEN st
        ELSE executeNextStep(
                 [st EXCEPT !.isExecuting = TRUE,
                            !.plans[st.currentPlan].status = "running"],
                 <<>>)

\* ------------------------------------------------------------------------
\* ChatViewProvider: actions
\* ------------------------------------------------------------------------
Apply(st) ==
    /\ plans' = st.plans
    /\ currentPlan' = st.currentPlan
    /\ isExecuting' = st.isExecuting
    /\ tasks' = st.tasks
    /\ events' = st.events
    /\ escaped' = st.escaped
    /\ UNCHANGED <<eventCap, stepError>>
    /\ UNCHANGED clientVars

StartExecution ==
    /\ BagCardinality(tasks) < MaxTasks
    /\ Apply(startPlanExecution(Cur))
    /\ UNCHANGED <<uiConnected, creating, resumed>>

PauseExecution ==
    /\ Apply(pausePlanExecution(Cur))
    /\ resumed' = FALSE
    /\ UNCHANGED <<uiConnected, creating>>

ResumeExecution ==
    /\ BagCardinality(tasks) < MaxTasks
    /\ Apply(resumePlanExecution(Cur))
    /\ resumed' = TRUE
    /\ UNCHANGED <<uiConnected, creating>>

StepResolved(t) ==
    /\ t.pc = "call"
    /\ Apply(afterResponse(Cur, t))
    /\ UNCHANGED <<uiConnected, creating, resumed>>

StepRejected(t, err) ==
    /\ t.pc = "call"
    /\ Apply(afterFailure(Cur, t, err))
    /\ UNCHANGED <<uiConnected, creating, resumed>>

StepDelayElapsed(t) ==
    /\ t.pc = "delay"
    /\ Apply(afterDelay(Cur, t))
    /\ UNCHANGED <<uiConnected, creating, resumed>>

\* ------------------------------------------------------------------------
\* ChatViewProvider: plan creation and session commands
\* ------------------------------------------------------------------------
\* response.plan as the server can send it: a fresh plan, or the snapshot of
\* a plan in progress; the provider adopts the object without looking at
\* its fields
InProgressPlan(n) ==
    [steps |-> [i \in 1..n |-> [status |-> IF i = 1 THEN "completed"
                                                     ELSE "pending",
                                error |-> "none"]],
     currentStepIndex |-> 1, status |-> "running"]

PayloadPlans ==
    {DraftPlan(n) : n \in 1..MaxCreated} \cup {InProgressPlan(n) : n \in 1..MaxCreated}

\* what createPlan() can resolve with: a structured plan, a text content
\* (with an embedded JSON object that has n steps, or without one), or
\* neither of the two
Responses ==
    [kind : {"plan"}, plan : PayloadPlans]
        \cup [kind : {"content"}, json : BOOLEAN, n : 0..MaxCreated]
        \cup {[kind |-> "none"]}

\* extractPlanFromResponse: the plan of the embedded JSON, else the one-step
\* fallback
extractPlanFromResponse(r) ==
    IF r.json THEN DraftPlan(r.n) ELSE DraftPlan(1)

\* this.currentPlan = plan; planCreated
AdoptPlan(st, plan) ==
    postMessage([st EXCEPT !.plans = Append(@, plan),
                           !.currentPlan = Len(st.plans) + 1],
                <<"planCreated", -1>>)

\* handleCreatePlan after createPlan() resolved with r
afterCreateResponse(st, r) ==
    IF r.kind = "plan" THEN AdoptPlan(st, r.plan)
    ELSE IF r.kind = "content" THEN AdoptPlan(st, extractPlanFromResponse(r))
    ELSE st

\* handleCreatePlan after createPlan() rejected
afterCreateFailure(st) == postMessage(st, <<"error", -1>>)

clearChat(st) == [st EXCEPT !.currentPlan = 0]

UpdateConnectionStatus(v) ==
    /\ uiConnected' = v
    /\ UNCHANGED <<plans, currentPlan, isExecuting, tasks, creating, events,
                   eventCap, escaped, stepError, resumed>>
    /\ UNCHANGED clientVars

\* the createPlan command up to the await of createPlan()
CreatePlan ==
    /\ uiConnected
    /\ creating + Len(plans) < MaxPlans
    /\ creating' = creating + 1
    /\ Apply(Cur)
    /\ UNCHANGED <<uiConnected, resumed>>

CreateResolved(r) ==
    /\ creating > 0
    /\ creating' = creating - 1
    /\ Apply(afterCreateResponse(Cur, r))
    /\ UNCHANGED <<uiConnected, resumed>>

CreateRejected ==
    /\ creating > 0
    /\ creating' = creating - 1
    /\ Apply(afterCreateFailure(Cur))
    /\ UNCHANGED <<uiConnected, resumed>>

ClearChat ==
    /\ Apply(clearChat(Cur))
    /\ UNCHANGED <<uiConnected, creating, resumed>>

\* ------------------------------------------------------------------------
\* ForgeClient: data
\* ------------------------------------------------------------------------
\* readyState of a socket.  "ABORTING" is readyState CLOSING of a socket that
\* was closed before it opened (its error and close events are still to
\* come); "CLOSING" is readyState CLOSING of a socket whose close event is
\* still to come.
SockStates == {"CONNECTING", "OPEN", "ABORTING", "CLOSING", "CLOSED"}

TerminalKinds == {"final_answer", "response", "chat_response", "plan_response"}
InboundKinds == TerminalKinds \cup {"heartbeat_ack", "thought"}

\* an inbound message: its type and data.request_id (0 = none); the
\* identifiers a message can carry are those handed out so far
Inbound == [type : InboundKinds, rid : 0..Len(calls)]

\* an outbound message is the request_id it carries; a heartbeat carries none
Heartbeat == 0

\* the client's mutable state as one value, threaded through the handlers;
\* out collects what the handlers of one macrotask do to the outside (messages
\* handed to the socket, listener calls, promise settlements), in order
Client ==
    [socks |-> socks, ws |-> ws, connected |-> connected,
     reconnectAttempts |-> reconnectAttempts, reconnectTimers |-> reconnectTimers,
     heartbeatInterval |-> heartbeatInterval, heartbeatTimers |-> heartbeatTimers,
     messageQueue |-> messageQueue,
     pendingRequests |-> pendingRequests, calls |-> calls, out |-> <<>>,
     hung |-> hung]

Emit(c, e) == [c EXCEPT !.out = Append(@, e)]

Without(seq, x) == SelectSeq(seq, LAMBDA y : y # x)
InSeq(seq, x) == \E i \in DOMAIN seq : seq[i] = x

\* this.maxReconnectAttempts is 10 in the source; the model scales it down so
\* that the ceiling is reached with the sockets MaxSockets allows
maxReconnectAttempts == 1

\* ------------------------------------------------------------------------
\* ForgeClient: methods
\* ------------------------------------------------------------------------
stopHeartbeat(c) ==
    IF c.heartbeatInterval
        THEN [c EXCEPT !.heartbeatInterval = FALSE, !.heartbeatTimers = @ - 1]
        ELSE c

\* mutant: the timer that is armed is not cleared first
startHeartbeat_NoStop(c) ==
    [c EXCEPT !.heartbeatInterval = TRUE, !.heartbeatTimers = @ + 1]

startHeartbeat(c) ==
    [stopHeartbeat(c) EXCEPT !.heartbeatInterval = TRUE, !.heartbeatTimers = @ + 1]

RECURSIVE notifyAll(_, _, _, _)
notifyAll(c, kind, h, v) ==
    IF h > NumHandlers THEN c
    ELSE notifyAll(Emit(c, <<kind, h, v>>), kind, h + 1, v)

\* mutant: the observers are called newest first
notifyConnectionChange_Reversed(c, v) ==
    LET c1 == notifyAll([c EXCEPT !.connected = v, !.out = <<>>], "connection", 1, v)
    IN  [c1 EXCEPT !.out = c.out \o [i \in DOMAIN c1.out |->
                                         c1.out[Len(c1.out) + 1 - i]]]

notifyConnectionChange(c, v) ==
    notifyAll([c EXCEPT !.connected = v], "connection", 1, v)

\* mutant: only the first listener is called
notifyMessage_FirstOnly(c, m) == Emit(c, <<"message", 1, m>>)

notifyMessage(c, m) == notifyAll(c, "message", 1, m)

\* the promise of call id is resolved / rejected (a no-op once it is settled)
resolve(c, id) ==
    Emit(IF c.calls[id].state = "pending"
             THEN [c EXCEPT !.calls[id].state = "resolved"]
             ELSE c,
         <<"resolve", id>>)

reject(c, id, err) ==
    Emit(IF c.calls[id].state = "pending"
             THEN [c EXCEPT !.calls[id].state = "rejected", !.calls[id].error = err]
             ELSE c,
         <<"reject", id, err>>)

resolver_KeepsTimer(c, id) == resolve(c, id)

\* the resolver sendAndWait registers: clearTimeout(timeout); resolve(response)
resolver(c, id) == resolve([c EXCEPT !.calls[id].timer = FALSE], id)

socketOpen(c) == c.ws # 0 /\ c.socks[c.ws] = "OPEN"

\* mutant: the flag alone decides
isConnected_FlagOnly(c) == c.connected

isConnected(c) == c.connected /\ socketOpen(c)

\* mutant: the message is queued even when the socket is open
sendRaw_AlwaysQueues(c, m) == [c EXCEPT !.messageQueue = Append(@, m)]

\* sendRaw: the new state; its result is socketOpen(c)
sendRaw(c, m) ==
    IF ~socketOpen(c)
        THEN [c EXCEPT !.messageQueue = Append(@, m)]
        ELSE Emit(c, <<"send", c.ws, m>>)

\* flushMessageQueue: when sendRaw cannot send it puts the message back, the
\* queue never shrinks and the loop does not end
RECURSIVE flushMessageQueue(_)
flushMessageQueue(c) ==
    IF c.messageQueue = <<>> THEN c
    ELSE IF ~socketOpen(c) THEN [c EXCEPT !.hung = TRUE]
    ELSE flushMessageQueue(
             sendRaw([c EXCEPT !.messageQueue = Tail(@)], Head(c.messageQueue)))

\* this.reconnectDelay, in milliseconds
reconnectDelay == 2000

attemptReconnect_NoCeiling(c) ==
    [c EXCEPT !.reconnectAttempts = @ + 1, !.reconnectTimers = @ + 1]

\* mutant: the timer is set before the counter is incremented
attemptReconnect_DelayFirst(c) ==
    IF c.reconnectAttempts >= maxReconnectAttempts THEN c
    ELSE Emit([c EXCEPT !.reconnectAttempts = @ + 1, !.reconnectTimers = @ + 1],
              <<"setTimeout", reconnectDelay * c.reconnectAttempts>>)

attemptReconnect(c) ==
    IF c.reconnectAttempts >= maxReconnectAttempts THEN c
    ELSE Emit([c EXCEPT !.reconnectAttempts = @ + 1, !.reconnectTimers = @ + 1],
              <<"setTimeout", reconnectDelay * (c.reconnectAttempts + 1)>>)

\* connect() up to the registration of the handlers: a new socket
connect(c) ==
    [c EXCEPT !.socks = Append(@, "CONNECTING"), !.ws = Len(c.socks) + 1]

\* the continuation sendAndWait attaches to connect(): run when the promise of
\* socket s is resolved with value v
RECURSIVE connectSettled(_, _, _, _)
connectSettled(c, s, v, id) ==
    IF id > Len(c.calls) THEN c
    ELSE IF c.calls[id].wait # s THEN connectSettled(c, s, v, id + 1)
    ELSE LET c1 == [c EXCEPT !.calls[id].wait = 0]
             c2 == IF v THEN c1
                   ELSE reject([c1 EXCEPT !.calls[id].timer = FALSE,
                                          !.pendingRequests = Without(@, id)],
                               id, ErrNoConn)
         IN  connectSettled(c2, s, v, id + 1)

\* the promise of connect() for socket s is pending until its first open or
\* error event
connectPending(c, s) == c.socks[s] \in {"CONNECTING", "ABORTING"}

\* mutant: the attempt counter is not reset
onOpen_KeepsAttempts(c, s) ==
    LET c1 == [c EXCEPT !.socks[s] = "OPEN", !.connected = TRUE]
        c2 == flushMessageQueue(startHeartbeat(notifyConnectionChange(c1, TRUE)))
    IN  IF c2.hung THEN c2 ELSE connectSettled(c2, s, TRUE, 1)

onOpen(c, s) ==
    LET c1 == [c EXCEPT !.socks[s] = "OPEN", !.connected = TRUE,
                        !.reconnectAttempts = 0]
        c2 == flushMessageQueue(startHeartbeat(notifyConnectionChange(c1, TRUE)))
    IN  IF c2.hung THEN c2 ELSE connectSettled(c2, s, TRUE, 1)

onClose(c) ==
    attemptReconnect(
        notifyConnectionChange(stopHeartbeat([c EXCEPT !.connected = FALSE]), FALSE))

onError(c) ==
    notifyConnectionChange(stopHeartbeat([c EXCEPT !.connected = FALSE]), FALSE)

\* mutant: a request_id match resolves the oldest call
handleMessage_RidOldest(c, m) ==
    IF m.type = "heartbeat_ack" THEN c
    ELSE IF m.type \in TerminalKinds /\ c.pendingRequests # <<>>
        THEN resolver([c EXCEPT !.pendingRequests = Tail(@)], Head(c.pendingRequests))
    ELSE IF m.rid # 0 /\ InSeq(c.pendingRequests, m.rid)
        THEN resolver([c EXCEPT !.pendingRequests = Tail(@)], Head(c.pendingRequests))
    ELSE notifyMessage(c, m)

handleMessage_NewestFirst(c, m) ==
    IF m.type = "heartbeat_ack" THEN c
    ELSE IF m.type \in TerminalKinds /\ c.pendingRequests # <<>>
        THEN resolver([c EXCEPT !.pendingRequests = Front(@)], Last(c.pendingRequests))
    ELSE IF m.rid # 0 /\ InSeq(c.pendingRequests, m.rid)
        THEN resolver([c EXCEPT !.pendingRequests = Without(@, m.rid)], m.rid)
    ELSE notifyMessage(c, m)

handleMessage(c, m) ==
    IF m.type = "heartbeat_ack" THEN c
    ELSE IF m.type \in TerminalKinds /\ c.pendingRequests # <<>>
        THEN resolver([c EXCEPT !.pendingRequests = Tail(@)], Head(c.pendingRequests))
    ELSE IF m.rid # 0 /\ InSeq(c.pendingRequests, m.rid)
        THEN resolver([c EXCEPT !.pendingRequests = Without(@, m.rid)], m.rid)
    ELSE notifyMessage(c, m)

\* what a socket can deliver: a text that parses to a message, or a text that
\* JSON.parse rejects
Payload == [kind : {"json"}, m : Inbound] \cup {[kind |-> "garbage"]}

Garbage == [kind |-> "garbage"]

\* mutant: the SyntaxError of JSON.parse leaves the handler
onSocketMessage_NoCatch(c, p) ==
    IF p.kind = "json" THEN handleMessage(c, p.m)
    ELSE Emit(c, <<"throw", "SyntaxError">>)

\* the 'message' handler: JSON.parse and handleMessage inside try/catch
onSocketMessage(c, p) ==
    IF p.kind = "json" THEN handleMessage(c, p.m)
    ELSE c

disconnect(c) ==
    LET c1 == stopHeartbeat(c)
        c2 == IF c1.ws = 0 THEN c1
              ELSE [c1 EXCEPT !.ws = 0,
                              !.socks[c1.ws] =
                                  CASE @ = "OPEN" -> "CLOSING"
                                    [] @ = "CONNECTING" -> "ABORTING"
                                    [] OTHER -> @]
    IN  notifyConnectionChange([c2 EXCEPT !.connected = FALSE], FALSE)

\* generateRequestId: 'req_' + Date.now() + '_' + nine random characters,
\* taken to be an identifier that no earlier call has received
generateRequestId(c) == Len(c.calls) + 1

timeoutFired_ClearsAll(c, id) ==
    reject([c EXCEPT !.calls[id].timer = FALSE, !.pendingRequests = <<>>],
           id, ErrTimeout)

timeoutFired(c, id) ==
    reject([c EXCEPT !.calls[id].timer = FALSE,
                     !.pendingRequests = Without(@, id)],
           id, ErrTimeout)

sendAndWait(c) ==
    LET requestId == generateRequestId(c)
        c1 == [c EXCEPT !.calls = Append(@, [state |-> "pending", error |-> "none",
                                             timer |-> TRUE, wait |-> 0]),
                        !.pendingRequests = Append(@, requestId)]
        c2 == sendRaw(c1, requestId)
    IN  IF socketOpen(c1) THEN c2
        ELSE LET c3 == connect(c2)
             IN  [c3 EXCEPT !.calls[requestId].wait = c3.ws]

\* mutant: the timer callback sends nothing
heartbeatTick_Silent(c) == c

heartbeatTick(c) ==
    IF c.connected /\ c.ws # 0 THEN sendRaw(c, Heartbeat) ELSE c

\* ------------------------------------------------------------------------
\* ForgeClient: actions (one macrotask each)
\* ------------------------------------------------------------------------
Settled(o) == SelectSeq(o, LAMBDA e : e[1] \in {"resolve", "reject"})

ApplyClient(c) ==
    /\ socks' = c.socks
    /\ ws' = c.ws
    /\ connected' = c.connected
    /\ reconnectAttempts' = c.reconnectAttempts
    /\ reconnectTimers' = c.reconnectTimers
    /\ heartbeatInterval' = c.heartbeatInterval
    /\ heartbeatTimers' = c.heartbeatTimers
    /\ messageQueue' = c.messageQueue
    /\ pendingRequests' = c.pendingRequests
    /\ calls' = c.calls
    /\ settled' = Settled(c.out)
    /\ hung' = c.hung
    /\ UNCHANGED planVars

\* connect() called by the host (command, auto-connect, webview)
Connect ==
    /\ ~hung
    /\ Len(socks) < MaxSockets
    /\ ApplyClient(connect(Client))

\* the timer of attemptReconnect fires
ReconnectTimer ==
    /\ ~hung
    /\ reconnectTimers > 0
    /\ Len(socks) < MaxSockets
    /\ ApplyClient(connect([Client EXCEPT !.reconnectTimers = @ - 1]))

Disconnect ==
    /\ ~hung
    /\ ApplyClient(disconnect(Client))

\* 'open' of socket s
SockOpen(s) ==
    /\ ~hung
    /\ socks[s] = "CONNECTING"
    /\ ApplyClient(onOpen(Client, s))

SockFail_NoSettle(s) ==
    /\ ~hung
    /\ socks[s] \in {"CONNECTING", "ABORTING"}
    /\ ApplyClient(onClose(onError([Client EXCEPT !.socks[s] = "CLOSED"])))

\* socket s fails before it opened: 'error' and 'close' in the same tick
SockFail(s) ==
    /\ ~hung
    /\ socks[s] \in {"CONNECTING", "ABORTING"}
    /\ ApplyClient(connectSettled(
           onClose(onError([Client EXCEPT !.socks[s] = "CLOSED"])), s, FALSE, 1))

\* 'error' of an open socket s; its 'close' follows
SockError(s) ==
    /\ ~hung
    /\ socks[s] = "OPEN"
    /\ ApplyClient(onError([Client EXCEPT !.socks[s] = "CLOSING"]))

\* 'close' of socket s
SockClose(s) ==
    /\ ~hung
    /\ socks[s] \in {"OPEN", "CLOSING"}
    /\ ApplyClient(onClose([Client EXCEPT !.socks[s] = "CLOSED"]))

\* 'message' of an open socket with a payload that parses to m (the handler
\* is the same for every socket and does not look at the socket)
SockMessage(m) ==
    /\ ~hung
    /\ \E s \in DOMAIN socks : socks[s] = "OPEN"
    /\ ApplyClient(handleMessage(Client, m))

\* 'message' of an open socket with a payload JSON.parse rejects
SockMalformed ==
    /\ ~hung
    /\ \E s \in DOMAIN socks : socks[s] = "OPEN"
    /\ ApplyClient(onSocketMessage(Client, Garbage))

SendAndWait ==
    /\ ~hung
    /\ Len(calls) < MaxCalls
    /\ Len(messageQueue) < MaxQueue
    /\ socketOpen(Client) \/ Len(socks) < MaxSockets
    /\ ApplyClient(sendAndWait(Client))

Timeout(id) ==
    /\ ~hung
    /\ calls[id].timer
    /\ ApplyClient(timeoutFired(Client, id))

\* a timer armed by startHeartbeat fires
HeartbeatTick ==
    /\ ~hung
    /\ heartbeatTimers > 0
    /\ Len(messageQueue) < MaxQueue
    /\ ApplyClient(heartbeatTick(Client))

InitClient ==
    /\ socks = <<>>
    /\ ws = 0
    /\ connected = FALSE
    /\ reconnectAttempts = 0
    /\ reconnectTimers = 0
    /\ heartbeatInterval = FALSE
    /\ heartbeatTimers = 0
    /\ messageQueue = <<>>
    /\ pendingRequests = <<>>
    /\ calls = <<>>
    /\ settled = <<>>
    /\ hung = FALSE
    /\ plans = <<>>
    /\ currentPlan = 0
    /\ isExecuting = FALSE
    /\ uiConnected = FALSE
    /\ tasks = EmptyBag
    /\ creating = 0
    /\ events = <<>>
    /\ eventCap = 0
    /\ escaped = FALSE
    /\ stepError = ErrTimeout
    /\ resumed = TRUE

NextClient ==
    \/ Connect
    \/ ReconnectTimer
    \/ Disconnect
    \/ \E s \in DOMAIN socks : SockOpen(s)
    \/ \E s \in DOMAIN socks : SockFail(s)
    \/ \E s \in DOMAIN socks : SockError(s)
    \/ \E s \in DOMAIN socks : SockClose(s)
    \/ \E m \in Inbound : SockMessage(m)
    \/ SockMalformed
    \/ SendAndWait
    \/ \E id \in DOMAIN calls : Timeout(id)
    \/ HeartbeatTick

SpecClient == InitClient /\ [][NextClient]_vars

\* ------------------------------------------------------------------------
\* Properties of the request correlator
\* ------------------------------------------------------------------------
Outstanding == {id \in DOMAIN calls : calls[id].state = "pending"}

Oldest == CHOOSE id \in Outstanding : \A other \in Outstanding : id <= other

Settlements(o, id) == Len(SelectSeq(o, LAMBDA e : e[2] = id))

Deliveries(m) == [h \in 1..NumHandlers |-> <<"message", h, m>>]

Sends(o) == SelectSeq(o, LAMBDA e : e[1] = "send")

\* C1: the promise of a sendAndWait call is settled at most once whatever the
\* order of response, timeout and connect failure: a call is outstanding
\* exactly while its entry is in pendingRequests and its timer is armed; the
\* step that settles it removes the entry; and once it is settled no later
\* event changes its outcome, re-arms its timer or brings its entry back.
C1_SettledOnce ==
    /\ [](\A id \in DOMAIN calls :
            /\ (calls[id].state = "pending") <=> InSeq(pendingRequests, id)
            /\ (calls[id].state = "pending") <=> calls[id].timer)
    /\ [][\A id \in DOMAIN calls :
            /\ (calls[id].state = "pending" /\ calls'[id].state # "pending")
                   => /\ InSeq(pendingRequests, id)
                      /\ ~InSeq(pendingRequests', id)
                      /\ Settlements(settled', id) = 1
            /\ calls[id].state # "pending"
                   => /\ calls'[id].state = calls[id].state
                      /\ calls'[id].error = calls[id].error
                      /\ ~calls'[id].timer
                      /\ ~InSeq(pendingRequests', id)]_vars

\* a call that timed out, after which the connect() it was waiting for failed
C1_Witness ==
    \E id \in DOMAIN calls :
        /\ calls[id].state = "rejected"
        /\ calls[id].error = ErrTimeout
        /\ settled = <<<<"reject", id, ErrNoConn>>>>
        /\ calls[id].wait = 0

\* C2: a message of a terminal kind that arrives while two or more calls are
\* outstanding resolves the call registered first and leaves every other
\* call outstanding, its entry still registered.
C2_OldestFirst ==
    [][(/\ Len(pendingRequests) >= 2
        /\ Len(settled') = 1
        /\ Cardinality(Outstanding) >= 2
        /\ \E m \in Inbound : m.type \in TerminalKinds /\ SockMessage(m))
       => /\ calls'[Oldest].state = "resolved"
          /\ settled' = <<<<"resolve", Oldest>>>>
          /\ \A id \in Outstanding \ {Oldest} :
                 /\ calls'[id] = calls[id]
                 /\ InSeq(pendingRequests', id)]_vars

C2_Witness ==
    /\ Len(calls) >= 2
    /\ calls[1].state = "resolved"
    /\ calls[2].state = "pending"
    /\ settled = <<<<"resolve", 1>>>>
    /\ pendingRequests = <<2>>

\* C3: a message that carries the request_id of a call that has timed out is
\* handed to every message listener and resolves no call, whatever its kind
\* (heartbeat acknowledgements, which the client always discards, set aside).
C3_LateResponseUnsolicited ==
    [][\A m \in Inbound :
         (/\ m.type # "heartbeat_ack"
          /\ m.rid \in DOMAIN calls
          /\ calls[m.rid].error = ErrTimeout
          /\ SockMessage(m))
         => /\ handleMessage(Client, m).out = Deliveries(m)
            /\ \A id \in DOMAIN calls : calls'[id] = calls[id]]_vars

\* C4: the timer of a call removes the entry of that call only and rejects
\* that call only: every other entry and call, the sockets, the connection
\* state and the outbound queue are as before; and when every call has timed
\* out pendingRequests is empty.
C4_TimeoutIsLocal ==
    /\ []((\A id \in DOMAIN calls : calls[id].error = ErrTimeout)
             => pendingRequests = <<>>)
    /\ [][\A id \in DOMAIN calls :
            (calls[id].timer /\ settled' = <<<<"reject", id, ErrTimeout>>>>)
            => /\ pendingRequests' = Without(pendingRequests, id)
               /\ calls'[id].state = "rejected"
               /\ \A other \in DOMAIN calls \ {id} : calls'[other] = calls[other]
               /\ UNCHANGED <<socks, ws, connected, reconnectAttempts,
                              reconnectTimers, heartbeatInterval, messageQueue>>]_vars

C4_Witness ==
    /\ Len(calls) >= 2
    /\ calls[1].error = ErrTimeout
    /\ calls[2].state = "pending"
    /\ settled = <<<<"reject", 1, ErrTimeout>>>>
    /\ pendingRequests = <<2>>
    /\ messageQueue = <<1, 2>>

\* C6: when a socket opens, the messages queued while the client could not
\* send are handed to the socket in the order they were queued, each once,
\* and the queue is empty afterwards.
C6_FifoFlush ==
    [][\A s \in DOMAIN socks :
         (socks[s] = "CONNECTING" /\ socks'[s] = "OPEN")
         => /\ messageQueue' = <<>>
            /\ Sends(onOpen(Client, s).out) =
                   [i \in DOMAIN messageQueue |-> <<"send", ws, messageQueue[i]>>]]_vars

\* ------------------------------------------------------------------------
\* Specification of one plan run: a created draft plan and the commands
\* start / pause / resume interleaved with the settlement of step calls
\* ------------------------------------------------------------------------
InitRun ==
    /\ \E n \in 0..MaxSteps : plans = <<DraftPlan(n)>>
    /\ currentPlan = 1
    /\ isExecuting = FALSE
    /\ uiConnected = TRUE
    /\ tasks = EmptyBag
    /\ creating = 0
    /\ events = <<>>
    /\ eventCap = 0
    /\ escaped = FALSE
    /\ stepError \in StepErrors
    /\ resumed = TRUE
    /\ socks = <<>>
    /\ ws = 0
    /\ connected = FALSE
    /\ reconnectAttempts = 0
    /\ reconnectTimers = 0
    /\ heartbeatInterval = FALSE
    /\ heartbeatTimers = 0
    /\ messageQueue = <<>>
    /\ pendingRequests = <<>>
    /\ calls = <<>>
    /\ settled = <<>>
    /\ hung = FALSE

NextRun ==
    \/ StartExecution
    \/ PauseExecution
    \/ ResumeExecution
    \/ \E t \in BagToSet(tasks) : StepResolved(t)
    \/ \E t \in BagToSet(tasks) : StepRejected(t, stepError)
    \/ \E t \in BagToSet(tasks) : StepDelayElapsed(t)

SpecRun == InitRun /\ [][NextRun]_vars

\* ------------------------------------------------------------------------
\* Plan execution: helpers of the properties
\* ------------------------------------------------------------------------
\* this step issues an executeStep() call (and marks its step in-progress)
IssuedCalls ==
    {t \in BagToSet(tasks') : t.pc = "call" /\ CopiesIn(t, tasks') > CopiesIn(t, tasks)}

\* this step issues the call for step j (0-based) of plan p
NewCall(p, j) == \E t \in IssuedCalls : Last(t.frames) = <<p, j>>

\* the call of task t belongs to the step at the cursor of the current plan
AtCursor(t) ==
    /\ currentPlan # 0
    /\ Last(t.frames) = <<currentPlan, plans[currentPlan].currentStepIndex>>

\* ------------------------------------------------------------------------
\* C7
\* ------------------------------------------------------------------------
\* C7 (as claimed, range part): in every reachable state of every plan
\* 0 <= currentStepIndex <= len(steps).  Violated: resume (with or without a
\* preceding pause) while a step call is in flight issues a second call for
\* the same step, and each of the two responses advances the cursor.  (The
\* second part of the claim, cursor = len(steps) => completed, additionally
\* fails during the settling delay after the last step.)
C7_CursorInRange ==
    \A p \in DOMAIN plans :
        /\ 0 <= plans[p].currentStepIndex
        /\ plans[p].currentStepIndex <= Len(plans[p].steps)

\* ------------------------------------------------------------------------
\* C8
\* ------------------------------------------------------------------------
\* C8 (as claimed): from a pause command until resume is invoked, no step that
\* follows a completed step and has not been started yet is marked in-progress
\* and no call is issued for it.  Violated: start is accepted on a paused plan
\* and continues exactly as resume does.
C8_NoNextStepUntilResume ==
    [][(~resumed /\ ~resumed') =>
          \A t \in IssuedCalls :
              LET p == Last(t.frames)[1]
                  j == Last(t.frames)[2]
              IN  ~(/\ j >= 1
                    /\ plans[p].steps[j].status = "completed"
                    /\ plans[p].steps[j + 1].status = "pending")
      ]_vars

\* C8 (amended): pause clears isExecuting; while isExecuting stays false no
\* step is started and no call is issued, and only the start and resume
\* commands set it again; every settlement of an in-flight call leaves its
\* step completed or failed.
C8_PauseBoundary ==
    [][/\ (~resumed' /\ PauseExecution) => ~isExecuting'
       /\ (~isExecuting /\ ~isExecuting') => IssuedCalls = {}
       /\ (~isExecuting /\ isExecuting') => (StartExecution \/ ResumeExecution)
       /\ \A t \in BagToSet(tasks) :
              (/\ t.pc = "call"
               /\ CopiesIn(t, tasks') < CopiesIn(t, tasks))
              => plans'[Last(t.frames)[1]].steps[Last(t.frames)[2] + 1].status
                     \in {"completed", "failed"}
      ]_vars

\* witness of C8: paused while step 0 was in flight; its call has resolved and
\* its continuation has halted: step 0 completed, step 1 untouched
C8_Witness ==
    /\ tasks = EmptyBag
    /\ ~isExecuting
    /\ plans[1].status = "paused"
    /\ plans[1].currentStepIndex = 1
    /\ Len(plans[1].steps) >= 2
    /\ plans[1].steps[1].status = "completed"
    /\ plans[1].steps[2].status = "pending"

\* ------------------------------------------------------------------------
\* C9
\* ------------------------------------------------------------------------
\* C9 (as claimed): a call for step N+1 is issued (and the step marked
\* in-progress) only when step N is completed or failed.  Violated by the
\* second continuation that resume starts while a call is in flight.
C9_StrictSequence ==
    [][\A t \in IssuedCalls :
          LET p == Last(t.frames)[1]
              j == Last(t.frames)[2]
          IN  j >= 1 => plans[p].steps[j].status \in {"completed", "failed"}]_vars

\* ------------------------------------------------------------------------
\* C10
\* ------------------------------------------------------------------------
\* C10: when the call for the step at the cursor is rejected or yields no
\* response, that step is failed with the error text, the plan is failed,
\* isExecuting is false, the cursor is unchanged and no call is issued; and
\* while the plan is failed and not executing only a start or resume command
\* issues a call.
C10_FailureStops ==
    [][/\ \A t \in BagToSet(tasks) :
              (/\ AtCursor(t)
               /\ t.pc = "call"
               /\ CopiesIn(t, tasks') < CopiesIn(t, tasks)
               /\ StepRejected(t, stepError)) =>
                          LET p == currentPlan
                              i == plans[p].currentStepIndex
                          IN  /\ plans'[p].steps[i + 1] =
                                     [status |-> "failed", error |-> stepError]
                              /\ plans'[p].status = "failed"
                              /\ ~isExecuting'
                              /\ plans'[p].currentStepIndex = i
                              /\ BagCardinality(tasks') = BagCardinality(tasks) - 1
                              /\ IssuedCalls = {}
       /\ (/\ ~isExecuting
           /\ currentPlan # 0
           /\ plans[currentPlan].status = "failed"
           /\ IssuedCalls # {})
              => (StartExecution \/ ResumeExecution)
      ]_vars

\* witness of C10: the step at the cursor failed by timeout and the run stopped
C10_Witness ==
    /\ currentPlan = 1
    /\ plans[1].status = "failed"
    /\ ~isExecuting
    /\ tasks = EmptyBag
    /\ plans[1].currentStepIndex = 1
    /\ plans[1].steps[1].status = "completed"
    /\ plans[1].steps[2] = [status |-> "failed", error |-> ErrTimeout]
    /\ stepError = ErrTimeout

\* ------------------------------------------------------------------------
\* C11
\* ------------------------------------------------------------------------
\* C11 (as claimed): once a plan is completed or failed, a start, pause or
\* resume command neither changes its status nor issues a call for it.
\* Violated: pause overwrites the status of a finished plan with paused, and
\* start or resume on a failed plan sets it running and calls the failed
\* step again.
C11_TerminalStatuses ==
    [][(/\ currentPlan # 0
        /\ plans[currentPlan].status \in {"completed", "failed"}
        /\ (StartExecution \/ PauseExecution \/ ResumeExecution))
       => /\ plans'[currentPlan].status = plans[currentPlan].status
          /\ IssuedCalls = {}]_vars

\* ------------------------------------------------------------------------
\* C12
\* ------------------------------------------------------------------------
\* the same runs with the recorder of step events switched on
InitRunLog ==
    /\ \E n \in 0..MaxSteps : plans = <<DraftPlan(n)>>
    /\ currentPlan = 1
    /\ isExecuting = FALSE
    /\ uiConnected = TRUE
    /\ tasks = EmptyBag
    /\ creating = 0
    /\ events = <<>>
    /\ eventCap = MaxEvents
    /\ escaped = FALSE
    /\ stepError \in StepErrors
    /\ resumed = TRUE
    /\ socks = <<>>
    /\ ws = 0
    /\ connected = FALSE
    /\ reconnectAttempts = 0
    /\ reconnectTimers = 0
    /\ heartbeatInterval = FALSE
    /\ heartbeatTimers = 0
    /\ messageQueue = <<>>
    /\ pendingRequests = <<>>
    /\ calls = <<>>
    /\ settled = <<>>
    /\ hung = FALSE

SpecRunLog == InitRunLog /\ [][NextRun]_vars

\* C12 (as claimed): in the recorded step events every stepCompleted(i) and
\* stepFailed(i) has a stepStarted(i) before it, every stepStarted(i+1) has a
\* stepCompleted(i) before it, and nothing follows a stepFailed; and when a
\* two-step plan has come to rest with step 0 completed and step 1 failed the
\* events are exactly stepStarted(0), stepCompleted(0), stepStarted(1),
\* stepFailed(1), the plan is failed and its cursor is 1.  Violated: a start
\* command after the failure starts the failed step again, and a resume
\* command while a call is in flight runs a second chain whose events follow
\* the stepFailed of the first.
C12_EventOrder ==
    /\ \A k \in DOMAIN events :
          /\ events[k][1] \in {"stepCompleted", "stepFailed"}
                => \E j \in 1..(k - 1) : events[j] = <<"stepStarted", events[k][2]>>
          /\ (events[k][1] = "stepStarted" /\ events[k][2] > 0)
                => \E j \in 1..(k - 1) : events[j] = <<"stepCompleted", events[k][2] - 1>>
          /\ events[k][1] = "stepFailed" => k = Len(events)
    /\ (/\ eventCap >= 4
        /\ tasks = EmptyBag
        /\ Len(plans[1].steps) = 2
        /\ plans[1].steps[1].status = "completed"
        /\ plans[1].steps[2].status = "failed")
       => /\ events = <<<<"stepStarted", 0>>, <<"stepCompleted", 0>>,
                        <<"stepStarted", 1>>, <<"stepFailed", 1>>>>
          /\ plans[1].status = "failed"
          /\ plans[1].currentStepIndex = 1

\* ------------------------------------------------------------------------
\* C13
\* ------------------------------------------------------------------------
\* C13: reconnectAttempts never exceeds maxReconnectAttempts; a reconnect
\* timer is scheduled only below the ceiling and counts as one attempt, so at
\* the ceiling no automatic attempt is scheduled; and the counter goes down
\* only by the reset of a socket that opens.
C13_ReconnectCeiling ==
    /\ [](reconnectAttempts <= maxReconnectAttempts)
    /\ [][/\ reconnectTimers' > reconnectTimers
               => /\ reconnectAttempts < maxReconnectAttempts
                  /\ reconnectAttempts' = reconnectAttempts + 1
                  /\ reconnectTimers' = reconnectTimers + 1
          /\ reconnectAttempts' < reconnectAttempts
               => /\ reconnectAttempts' = 0
                  /\ \E s \in DOMAIN socks :
                         socks[s] = "CONNECTING" /\ socks'[s] = "OPEN"]_vars

\* the first connection and maxReconnectAttempts automatic attempts have all
\* failed, and the last failure scheduled nothing
C13_Witness ==
    /\ reconnectAttempts = maxReconnectAttempts
    /\ reconnectTimers = 0
    /\ Len(socks) = maxReconnectAttempts + 1
    /\ \A s \in DOMAIN socks : socks[s] = "CLOSED"

\* ------------------------------------------------------------------------
\* C14
\* ------------------------------------------------------------------------
\* C14 (as claimed): at most one socket is connecting or open at any time.
\* Violated: connect() constructs a new WebSocket on every call and leaves
\* the previous one, with its handlers, alive.
C14_SingleSocket ==
    Cardinality({s \in DOMAIN socks : socks[s] \in {"CONNECTING", "OPEN"}}) <= 1

\* ------------------------------------------------------------------------
\* C15
\* ------------------------------------------------------------------------
\* C15: when the connection attempt that a sendAndWait call started because
\* it could not send fails while the call is outstanding, the same step
\* rejects the call with the connection-failure error, removes its entry
\* from pendingRequests and cancels its timer.
C15_ConnectFailureRejects ==
    [][\A id \in DOMAIN calls :
          (/\ calls[id].state = "pending"
           /\ calls[id].wait # 0
           /\ socks[calls[id].wait] \in {"CONNECTING", "ABORTING"}
           /\ socks'[calls[id].wait] = "CLOSED")
          => /\ calls'[id].state = "rejected"
             /\ calls'[id].error = ErrNoConn
             /\ ~calls'[id].timer
             /\ ~InSeq(pendingRequests', id)
             /\ InSeq(settled', <<"reject", id, ErrNoConn>>)]_vars

C15_Witness ==
    \E id \in DOMAIN calls :
        /\ calls[id].error = ErrNoConn
        /\ ~calls[id].timer
        /\ settled = <<<<"reject", id, ErrNoConn>>>>
        /\ ~InSeq(pendingRequests, id)
        /\ InSeq(messageQueue, id)

\* ------------------------------------------------------------------------
\* C16
\* ------------------------------------------------------------------------
\* C16 (as claimed): when disconnect() is called on an open connection, or a
\* socket that was open closes, while calls are outstanding, every outstanding call is rejected
\* and pendingRequests is empty afterwards.  Violated: neither disconnect()
\* nor the close handler touches pendingRequests; the calls stay outstanding
\* until their timers fire.
C16_RejectedOnDisconnect ==
    [][(/\ pendingRequests # <<>>
        /\ \/ socketOpen(Client) /\ Disconnect
           \/ \E s \in DOMAIN socks : socks[s] \in {"OPEN", "CLOSING"} /\ SockClose(s))
       => /\ pendingRequests' = <<>>
          /\ \A id \in Outstanding : calls'[id].state = "rejected"]_vars

\* ------------------------------------------------------------------------
\* C17
\* ------------------------------------------------------------------------
\* C17 (as claimed): while this.ws is null, that is from disconnect() until
\* the next connect(), no reconnect timer is scheduled and no socket is
\* created.  Violated: the close event of the socket that disconnect() closed
\* runs the close handler, which calls attemptReconnect; the timer then
\* calls connect().
C17_NoReconnectAfterDisconnect ==
    [][(ws = 0 /\ Len(socks) = 1)
       => /\ reconnectTimers' <= reconnectTimers
          /\ (Len(socks') > Len(socks) => (Connect \/ SendAndWait))]_vars

\* ------------------------------------------------------------------------
\* Specification of a session: plans are created, run and cleared
\* ------------------------------------------------------------------------
InitSession ==
    /\ plans = <<>>
    /\ currentPlan = 0
    /\ isExecuting = FALSE
    /\ uiConnected = TRUE
    /\ tasks = EmptyBag
    /\ creating = 0
    /\ events = <<>>
    /\ eventCap = 0
    /\ escaped = FALSE
    /\ stepError = ErrTimeout
    /\ resumed = TRUE
    /\ socks = <<>>
    /\ ws = 0
    /\ connected = FALSE
    /\ reconnectAttempts = 0
    /\ reconnectTimers = 0
    /\ heartbeatInterval = FALSE
    /\ heartbeatTimers = 0
    /\ messageQueue = <<>>
    /\ pendingRequests = <<>>
    /\ calls = <<>>
    /\ settled = <<>>
    /\ hung = FALSE

NextSession ==
    \/ \E v \in BOOLEAN : UpdateConnectionStatus(v)
    \/ CreatePlan
    \/ \E r \in Responses : CreateResolved(r)
    \/ CreateRejected
    \/ ClearChat
    \/ StartExecution
    \/ PauseExecution
    \/ ResumeExecution
    \/ \E t \in BagToSet(tasks) : StepResolved(t)
    \/ \E t \in BagToSet(tasks) : StepRejected(t, stepError)
    \/ \E t \in BagToSet(tasks) : StepDelayElapsed(t)

SpecSession == InitSession /\ [][NextSession]_vars

\* C18: every newly created plan starts in status draft with cursor 0 and all
\* of its steps pending, whichever way it was created (structured payload,
\* extraction from the text, one-step fallback).
C18_NewPlanIsDraft ==
    [][Len(plans') > Len(plans)
       => LET p == plans'[Len(plans')]
          IN  /\ p.status = "draft"
              /\ p.currentStepIndex = 0
              /\ \A i \in DOMAIN p.steps : p.steps[i].status = "pending"]_vars

\* C19: whatever response a waiting plan-creation call resolves with, the
\* handler installs a new current plan and posts planCreated.
C19_ResponseYieldsPlan ==
    creating > 0
        => \A r \in Responses :
               LET st == afterCreateResponse(
                             [Cur EXCEPT !.eventCap = 1, !.events = <<>>], r)
               IN  /\ Len(st.plans) = Len(plans) + 1
                   /\ st.currentPlan = Len(st.plans)
                   /\ st.events = <<<<"planCreated", -1>>>>

\* C20: once every issued execute-step call has settled (no executeNextStep
\* chain is suspended), isExecuting is false and no exception has left the
\* step-execution routine.  (The claim also asks for a resting plan status;
\* this weaker statement already fails.)
C20_NoLimbo ==
    tasks = EmptyBag => (~isExecuting /\ ~escaped)

\* ------------------------------------------------------------------------
\* Properties of the connection
\* ------------------------------------------------------------------------
\* a state in which the flag says connected and this.ws is null or not open
SplitBrain == connected /\ (ws = 0 \/ socks[ws] # "OPEN")

\* C21: isConnected() is true only when the connected flag is true and
\* this.ws exists and is OPEN; in every split-brain state it is false.
C21_IsConnected ==
    /\ isConnected(Client) => (connected /\ ws # 0 /\ socks[ws] = "OPEN")
    /\ SplitBrain => ~isConnected(Client)

\* the flag was set by the open of socket 1 after this.ws moved on to socket 2
C21_Witness ==
    /\ SplitBrain
    /\ ~isConnected(Client)
    /\ Len(socks) = 2
    /\ socks[1] = "OPEN"
    /\ ws = 2
    /\ socks[2] = "CONNECTING"

ConnectionNotices(v) == [h \in 1..NumHandlers |-> <<"connection", h, v>>]

Notices(o) == SelectSeq(o, LAMBDA e : e[1] = "connection")

\* C23: the open, close and error events of a socket and disconnect() call
\* every connection observer once, in registration order, with the new value
\* of the connected flag (a failure before the open is an error event and a
\* close event: two rounds); and the flag changes in no other step.
C23_ObserversNotified ==
    [][/\ \A s \in DOMAIN socks :
            /\ (socks'[s] = "OPEN" /\ SockOpen(s))
                   => /\ Notices(onOpen(Client, s).out) = ConnectionNotices(TRUE)
                      /\ connected'
            /\ (socks[s] # "CLOSED" /\ socks'[s] = "CLOSED" /\ SockClose(s))
                   => /\ Notices(onClose(Client).out) = ConnectionNotices(FALSE)
                      /\ ~connected'
            /\ (socks[s] = "OPEN" /\ socks'[s] = "CLOSING" /\ SockError(s))
                   => /\ Notices(onError(Client).out) = ConnectionNotices(FALSE)
                      /\ ~connected'
            /\ (socks[s] # "CLOSED" /\ socks'[s] = "CLOSED" /\ SockFail(s))
                   => /\ Notices(onClose(onError(Client)).out) =
                             ConnectionNotices(FALSE) \o ConnectionNotices(FALSE)
                      /\ ~connected'
       /\ (ws' = 0 /\ Len(socks') = Len(socks) /\ Disconnect)
              => /\ Notices(disconnect(Client).out) = ConnectionNotices(FALSE)
                 /\ ~connected'
       /\ connected' # connected
              => \/ Disconnect
                 \/ \E s \in DOMAIN socks :
                        SockOpen(s) \/ SockClose(s) \/ SockError(s) \/ SockFail(s)]_vars

\* a socket opened (observers called with true), then reported an error
\* (observers called with false); its close event is still to come
C23_Witness ==
    /\ socks = <<"CLOSING">>
    /\ ws = 1
    /\ ~connected
    /\ reconnectAttempts = 0

\* C24: a payload that does not parse is dropped: no call is settled, no
\* listener is called, nothing is sent, no error leaves the handler, and the
\* connection state, pendingRequests, the calls and the queue are unchanged.
C24_MalformedDropped ==
    [][SockMalformed
       => /\ onSocketMessage(Client, Garbage).out = <<>>
          /\ settled' = <<>>
          /\ UNCHANGED <<socks, ws, connected, reconnectAttempts, reconnectTimers,
                         heartbeatInterval, heartbeatTimers, messageQueue,
                         pendingRequests, calls, hung>>]_vars

\* a socket is open and a call is outstanding after another call timed out:
\* a malformed payload arriving here leaves all of it as it is
C24_Witness ==
    /\ \E s \in DOMAIN socks : socks[s] = "OPEN"
    /\ Len(calls) = 2
    /\ calls[1].error = ErrTimeout
    /\ calls[2].state = "pending"
    /\ pendingRequests = <<2>>
    /\ settled = <<>>

\* ------------------------------------------------------------------------
\* The client as compiled in out/ForgeClient.js: it has no heartbeat (no
\* timer is armed or cleared, so the close and error handlers and
\* disconnect() act as above with heartbeatInterval always FALSE) and its
\* handleMessage does not look for heartbeat acknowledgements
\* ------------------------------------------------------------------------
onOpenOut(c, s) ==
    LET c1 == [c EXCEPT !.socks[s] = "OPEN", !.connected = TRUE,
                        !.reconnectAttempts = 0]
        c2 == flushMessageQueue(notifyConnectionChange(c1, TRUE))
    IN  IF c2.hung THEN c2 ELSE connectSettled(c2, s, TRUE, 1)

handleMessageOut(c, m) ==
    IF m.type \in TerminalKinds /\ c.pendingRequests # <<>>
        THEN resolver([c EXCEPT !.pendingRequests = Tail(@)], Head(c.pendingRequests))
    ELSE IF m.rid # 0 /\ InSeq(c.pendingRequests, m.rid)
        THEN resolver([c EXCEPT !.pendingRequests = Without(@, m.rid)], m.rid)
    ELSE notifyMessage(c, m)

SockOpenOut(s) ==
    /\ ~hung
    /\ socks[s] = "CONNECTING"
    /\ ApplyClient(onOpenOut(Client, s))

SockMessageOut(m) ==
    /\ ~hung
    /\ \E s \in DOMAIN socks : socks[s] = "OPEN"
    /\ ApplyClient(handleMessageOut(Client, m))

NextClientOut ==
    \/ Connect
    \/ ReconnectTimer
    \/ Disconnect
    \/ \E s \in DOMAIN socks : SockOpenOut(s)
    \/ \E s \in DOMAIN socks : SockFail(s)
    \/ \E s \in DOMAIN socks : SockError(s)
    \/ \E s \in DOMAIN socks : SockClose(s)
    \/ \E m \in Inbound : SockMessageOut(m)
    \/ SockMalformed
    \/ SendAndWait
    \/ \E id \in DOMAIN calls : Timeout(id)

SpecClientOut == InitClient /\ [][NextClientOut]_vars

\* C25: a heartbeat_ack is discarded before any matching: whatever calls are
\* outstanding and whatever request_id it carries, it settles no call and
\* reaches no message listener.
C25_AckDiscarded ==
    [][\A m \in Inbound :
         (m.type = "heartbeat_ack" /\ SockMessageOut(m))
         => /\ handleMessageOut(Client, m).out = <<>>
            /\ UNCHANGED <<calls, pendingRequests>>]_vars

\* ------------------------------------------------------------------------
\* Properties of the request_id rule and of unsolicited messages
\* ------------------------------------------------------------------------
\* the terminal-kind rule takes m: m has a terminal kind and a call is registered
TerminalMatch(m) == m.type \in TerminalKinds /\ pendingRequests # <<>>

\* the request_id rule can take m: m carries the id of a registered call
RidMatch(m) == m.rid # 0 /\ InSeq(pendingRequests, m.rid)

ResolvesExactly(m) ==
    /\ handleMessage(Client, m).out = <<<<"resolve", m.rid>>>>
    /\ calls'[m.rid].state = "resolved"
    /\ ~calls'[m.rid].timer
    /\ pendingRequests' = Without(pendingRequests, m.rid)
    /\ \A id \in DOMAIN calls \ {m.rid} : calls'[id] = calls[id]

\* C26 as stated: a message that the terminal-kind rule does not take and
\* that carries the request_id of an outstanding call resolves exactly that
\* call; every other call stays outstanding and no listener is called.
C26_RequestIdResolves ==
    [][\A m \in Inbound :
         (~TerminalMatch(m) /\ RidMatch(m) /\ SockMessage(m))
         => ResolvesExactly(m)]_vars

\* C26 amended: the same for every message other than a heartbeat_ack.
C26_RequestIdMatch ==
    [][\A m \in Inbound :
         (m.type # "heartbeat_ack" /\ ~TerminalMatch(m) /\ RidMatch(m)
          /\ SockMessage(m))
         => ResolvesExactly(m)]_vars

\* the call registered second was resolved by its request_id, the first one
\* is still outstanding
C26_Witness ==
    /\ Len(calls) = 2
    /\ calls[1].state = "pending"
    /\ calls[2].state = "resolved"
    /\ settled = <<<<"resolve", 2>>>>
    /\ pendingRequests = <<1>>

\* handleMessage hands m to every listener once, in registration order, and
\* does nothing else
Forwarded(m) ==
    LET r == handleMessage(Client, m)
    IN  /\ r.out = Deliveries(m)
        /\ r.pendingRequests = pendingRequests
        /\ r.calls = calls
        /\ r.messageQueue = messageQueue

\* C27 as stated: whenever a socket is open, a message that neither rule
\* takes is handed to every message listener exactly once, in registration
\* order, and pendingRequests is unchanged.
C27_UnsolicitedForwarded ==
    (\E s \in DOMAIN socks : socks[s] = "OPEN")
        => \A m \in Inbound :
               (~TerminalMatch(m) /\ ~RidMatch(m)) => Forwarded(m)

\* C27 amended: the same for every message other than a heartbeat_ack.
C27_UnsolicitedOthers ==
    (\E s \in DOMAIN socks : socks[s] = "OPEN")
        => \A m \in Inbound :
               (m.type # "heartbeat_ack" /\ ~TerminalMatch(m) /\ ~RidMatch(m))
                   => Forwarded(m)

\* a socket is open, one call is outstanding and one has timed out: a
\* message of a kind that is not terminal carrying the id of the timed-out
\* call, or none, is unsolicited here
C27_Witness ==
    /\ \E s \in DOMAIN socks : socks[s] = "OPEN"
    /\ Len(calls) = 2
    /\ calls[1].state = "pending"
    /\ calls[2].error = ErrTimeout
    /\ pendingRequests = <<1>>
    /\ ~RidMatch([type |-> "thought", rid |-> 2])
    /\ Forwarded([type |-> "thought", rid |-> 2])

\* ------------------------------------------------------------------------
\* Properties of the open handler and of the heartbeat
\* ------------------------------------------------------------------------
\* C28: the open handler of a socket resets reconnectAttempts to 0, calls the
\* observers with true and arms one heartbeat timer; and when it returns (the
\* flush ended) the queue is empty, every message that was queued having
\* been handed, in order, to this.ws, which is then the socket that opened.
C28_OnOpen ==
    [][\A s \in DOMAIN socks :
         SockOpen(s)
         => /\ reconnectAttempts' = 0
            /\ connected'
            /\ Notices(onOpen(Client, s).out) = ConnectionNotices(TRUE)
            /\ heartbeatInterval'
            /\ heartbeatTimers' = 1
            /\ ~hung'
                   => /\ messageQueue' = <<>>
                      /\ Sends(onOpen(Client, s).out) =
                             [i \in DOMAIN messageQueue |->
                                  <<"send", ws, messageQueue[i]>>]
                      /\ messageQueue # <<>> => ws = s]_vars

\* the first connection attempt failed with a message queued (the counter
\* went to 1); a second socket opened: the counter is back at 0 and the
\* queue was flushed
C28_Witness ==
    /\ socks = <<"CLOSED", "OPEN">>
    /\ ws = 2
    /\ connected
    /\ reconnectAttempts = 0
    /\ heartbeatInterval
    /\ Len(calls) = 1
    /\ calls[1].error = ErrNoConn
    /\ messageQueue = <<>>

\* C29: close, error and disconnect() stop the heartbeat timer and every open
\* arms a fresh one: at most one timer is armed at any time (the one
\* this.heartbeatInterval refers to), and none while the connected flag is
\* false.
C29_HeartbeatStopped ==
    /\ [](/\ heartbeatTimers <= 1
          /\ heartbeatInterval <=> heartbeatTimers = 1
          /\ ~connected => heartbeatTimers = 0)
    /\ [][/\ heartbeatTimers' # 0
             => ~(\/ Disconnect
                  \/ \E s \in DOMAIN socks :
                         SockClose(s) \/ SockError(s) \/ SockFail(s))
          /\ heartbeatTimers' # 1
             => ~(\E s \in DOMAIN socks : SockOpen(s))]_vars

\* two sockets have opened one after the other: one timer is armed
C29_Witness ==
    /\ socks = <<"OPEN", "OPEN">>
    /\ connected
    /\ heartbeatTimers = 1

\* C30: in every state in which isConnected() is true a heartbeat timer is
\* armed, and when it fires the heartbeat is handed to this.ws (nothing is
\* queued).
C30_HeartbeatWhileConnected ==
    isConnected(Client)
        => /\ heartbeatInterval
           /\ heartbeatTimers = 1
           /\ ~hung
           /\ heartbeatTick(Client).out = <<<<"send", ws, Heartbeat>>>>
           /\ heartbeatTick(Client).messageQueue = messageQueue

\* the first connection attempt failed and a second socket opened: the
\* timer is armed
C30_Witness ==
    /\ isConnected(Client)
    /\ socks = <<"CLOSED", "OPEN">>
    /\ ws = 2
    /\ heartbeatInterval

\* ------------------------------------------------------------------------
\* Properties of the reconnect schedule
\* ------------------------------------------------------------------------
Scheduled(o) == SelectSeq(o, LAMBDA e : e[1] = "setTimeout")

\* what the handlers of the step in which socket s becomes CLOSED do: error
\* and close of a socket that never opened, close of one that did
ClosingOut(s) ==
    LET c == [Client EXCEPT !.socks[s] = "CLOSED"]
    IN  IF socks[s] \in {"CONNECTING", "ABORTING"}
            THEN onClose(onError(c)).out
            ELSE onClose(c).out

NextRunFair ==
    \/ StartExecution
    \/ ResumeExecution
    \/ \E t \in BagToSet(tasks) : StepResolved(t)
    \/ \E t \in BagToSet(tasks) : StepDelayElapsed(t)

SpecRunFair ==
    /\ InitRun
    /\ [][NextRunFair]_vars
    /\ WF_vars(\E t \in BagToSet(tasks) : StepResolved(t))
    /\ WF_vars(\E t \in BagToSet(tasks) : StepDelayElapsed(t))

\* plan 1 is completed as the claim describes it
CompletedInFull ==
    /\ plans[1].status = "completed"
    /\ plans[1].currentStepIndex = Len(plans[1].steps)
    /\ \A i \in DOMAIN plans[1].steps : plans[1].steps[i].status = "completed"
    /\ ~isExecuting

\* C32: a plan that is started, never paused and whose step calls are all
\* resolved eventually is completed with the cursor at the number of steps,
\* every step completed and isExecuting false; a plan without steps is
\* completed by the start command itself.  (The count of executionCompleted
\* events is left out: the statement fails without it.)
C32_EventuallyCompleted ==
    /\ (plans[1].status = "running") ~> CompletedInFull
    /\ [][(Len(plans[1].steps) = 0 /\ plans[1].status = "draft" /\ StartExecution)
          => CompletedInFull']_vars

\* ------------------------------------------------------------------------
\* C33
\* ------------------------------------------------------------------------
\* C33 (as claimed): pause is a transition from running to paused only: a
\* pause command on a plan whose status is draft, completed or failed leaves
\* the status unchanged.  Violated: pausePlanExecution assigns 'paused' to
\* whatever plan is current, without testing its status.
C33_PauseOnlyWhenRunning ==
    [][(/\ currentPlan # 0
        /\ plans[currentPlan].status \in {"draft", "completed", "failed"}
        /\ PauseExecution)
       => plans'[currentPlan].status = plans[currentPlan].status]_vars

\* ------------------------------------------------------------------------
\* C34
\* ------------------------------------------------------------------------
\* the executeStep() calls that have not been settled yet
OutstandingCalls ==
    BagCardinality([t \in {u \in BagToSet(tasks) : u.pc = "call"} |-> tasks[t]])

\* C34 (as claimed): at most one executeStep() call is outstanding at any time,
\* for every interleaving of start, pause and resume with the step responses.
\* Violated: resumePlanExecution (and startPlanExecution) call executeNextStep
\* without testing whether a call is already in flight.
\* In particular a resume while the call of step K is in flight does not issue
\* a second call for step K.
C34_OneCallOutstanding ==
    /\ [](OutstandingCalls <= 1)
    /\ [][\A t \in BagToSet(tasks) :
             (t.pc = "call" /\ ResumeExecution)
             => ~NewCall(Last(t.frames)[1], Last(t.frames)[2])]_vars

\* ------------------------------------------------------------------------
\* C35
\* ------------------------------------------------------------------------
\* C35 (as claimed): when the current plan was installed while a step call of
\* the previous plan was in flight, the later settlement of that call (and
\* the continuation after its settling delay) never modifies the current
\* plan and issues no call.  Violated: the continuation captures the step
\* object of the old plan but reads this.currentPlan again, so it advances
\* the cursor of the new plan and goes on with the new plan's steps.
C35_OldRunLeavesNewPlan ==
    [][\A t \in BagToSet(tasks) :
          (/\ currentPlan # 0
           /\ Last(t.frames)[1] # currentPlan
           /\ (plans'[currentPlan] # plans[currentPlan] \/ IssuedCalls # {}))
          => ~(\/ StepResolved(t)
               \/ StepRejected(t, stepError)
               \/ StepDelayElapsed(t))]_vars

\* ------------------------------------------------------------------------
\* C36
\* ------------------------------------------------------------------------
\* the 0-based indices of the steps of plan p that are completed
CompletedSteps(p) ==
    {i \in 0..(Len(plans[p].steps) - 1) : plans[p].steps[i + 1].status = "completed"}

\* C36 (as claimed): in every reachable state of a plan the cursor equals the
\* number of completed steps, the completed steps are exactly those below
\* the cursor, and every step above the cursor is pending.  Violated: with
\* two calls in flight for one step (resume while a call is in flight) each
\* response advances the cursor.
C36_CursorCountsCompleted ==
    \A p \in DOMAIN plans :
        LET k == plans[p].currentStepIndex
        IN  /\ k = Cardinality(CompletedSteps(p))
            /\ CompletedSteps(p) = {i \in 0..(Len(plans[p].steps) - 1) : i < k}
            /\ \A i \in 0..(Len(plans[p].steps) - 1) :
                   i > k => plans[p].steps[i + 1].status = "pending"

\* ------------------------------------------------------------------------
\* C37
\* ------------------------------------------------------------------------
\* C37 (as claimed): within one plan the cursor never decreases, a completed
\* step never changes status afterwards, and execution never changes the
\* number of the steps.  Violated: with two calls in flight for one step,
\* the rejection of the second turns the step the first completed to failed.
C37_MonotoneProgress ==
    [][\A p \in DOMAIN plans :
          /\ plans'[p].currentStepIndex >= plans[p].currentStepIndex
          /\ Len(plans'[p].steps) = Len(plans[p].steps)
          /\ \A i \in DOMAIN plans[p].steps :
                 plans[p].steps[i].status = "completed"
                 => plans'[p].steps[i].status = "completed"]_vars

\* ------------------------------------------------------------------------
\* C38
\* ------------------------------------------------------------------------
\* C38 (as claimed): once a call has been rejected (by its timeout or by a
\* connection failure) its message is no longer in messageQueue, so that a
\* later open handler cannot transmit it.  Violated: neither the timeout
\* callback nor the rejection of a failed connect removes the message that
\* sendRaw queued.
C38_NoOrphanedSends ==
    \A id \in DOMAIN calls :
        calls[id].state = "rejected" => ~InSeq(messageQueue, id)

\* ------------------------------------------------------------------------
\* C39
\* ------------------------------------------------------------------------
\* C39 (as claimed): every invocation of flushMessageQueue by an open handler
\* returns after finitely many iterations.  Violated: when the socket that
\* opened is no longer this.ws and this.ws is not open, sendRaw puts the
\* message it was given back at the end of the queue and the loop condition
\* never becomes false.
C39_FlushTerminates == ~hung

\* ------------------------------------------------------------------------
\* C40
\* ------------------------------------------------------------------------
\* C40 (as claimed): while this.ws is a newer socket that is open, a close or
\* error event of an older socket neither clears the connected flag, nor
\* stops the heartbeat, nor notifies the observers of a disconnect, nor
\* schedules a reconnect.  Violated: the handlers are closures over the
\* client, not over their socket, and never compare their socket to this.ws.
C40_SupersededSocketIgnored ==
    [][\A s \in DOMAIN socks :
          (/\ ws # 0
           /\ s # ws
           /\ socks[ws] = "OPEN"
           /\ connected
           /\ socks'[s] # socks[s]
           /\ socks'[s] \in {"CLOSING", "CLOSED"})
          => /\ connected'
             /\ heartbeatInterval' = heartbeatInterval
             /\ heartbeatTimers' = heartbeatTimers
             /\ reconnectTimers' = reconnectTimers
             /\ Notices(IF socks'[s] = "CLOSING"
                            THEN onError(Client).out
                            ELSE ClosingOut(s)) = <<>>]_vars

====
